---------------------------- MODULE Spec2Model ----------------------------
(***************************************************************************)
(* A model of import_data.py, the Hipparcos catalog import utility of     *)
(* STAR: the connectivity wait, the emptiness check, the source lookup,   *)
(* the cleaning of the data frame, the batched unordered insert, the      *)
(* index creation and the final statistics, run by one or two processes   *)
(* against one destination collection.                                    *)
(*                                                                         *)
(* Floating-point columns are modelled by integers: the code only         *)
(* compares them with the integer limits -3, 20 and 0, and NaN is a value  *)
(* of its own.                                                             *)
(***************************************************************************)
EXTENDS Integers, Sequences, FiniteSets, Bags, TLC

VARIABLES
    store,        \* the documents of collection db['stars'], a bag
    unique_hip,   \* whether the unique index on HIP exists on the collection
    store0,       \* the documents the collection held before any run
    proc          \* per process: the locals of import_star_data and its callees

vars == <<store, unique_hip, store0, proc>>

(***************************************************************************)
(* Bounds of the model.                                                    *)
(***************************************************************************)
MaxRows == 3          \* rows of a source file read by the pipeline
MaxCleanRows == 2     \* rows of a frame given to clean_and_validate_data alone
MaxRetries == 3       \* largest max_retries given to wait_for_mongodb
MaxRuns == 2          \* runs of the pipeline one after another
ScaledBatch == 2      \* batch size of the pipeline runs (batch_size scaled down)
MaxRejectable == 2    \* records at the head of a batch that may be rejected

(***************************************************************************)
(* Program constants.                                                      *)
(***************************************************************************)
batch_size == 5000
default_max_retries == 30
VmagMin == -3
VmagMax == 20

Procs == {1, 2}

Min(a, b) == IF a <= b THEN a ELSE b

(***************************************************************************)
(* Cell values.  A numeric cell is <<n>>, a missing one (NaN) is <<>>.     *)
(* A raw cell of the frame read from the file is numeric, a string that    *)
(* holds a numeral, a string that holds none, or empty.                    *)
(***************************************************************************)
NaN == <<>>
Num(n) == <<n>>
isna(x) == x = NaN

RawNum(n) == [k |-> "num", v |-> n]
RawStr(n) == [k |-> "str", v |-> n]
RawJunk == [k |-> "junk", v |-> 0]
RawEmpty == [k |-> "empty", v |-> 0]

\* pd.to_numeric(cell, errors='coerce')
to_numeric(c) ==
    IF c.k \in {"num", "str"} THEN Num(c.v) ELSE NaN

Columns == {"HIP", "Vmag", "Distance_pc"}

\* the conversion loop of clean_and_validate_data: only columns of the frame
coerce_row(cols, r) ==
    [c \in Columns |-> IF c \in cols THEN to_numeric(r[c]) ELSE NaN]

coerce(cols, rows) ==
    [i \in 1..Len(rows) |-> coerce_row(cols, rows[i])]

\* the rows of s at the indexes in keep, in order
RECURSIVE Take(_, _, _)
Take(s, keep, i) ==
    IF i > Len(s) THEN <<>>
    ELSE (IF i \in keep THEN <<s[i]>> ELSE <<>>) \o Take(s, keep, i + 1)

\* a variant: no dropna
dropna_keeps_all(rows) == rows

\* df.dropna(subset=['HIP'])
dropna(rows) ==
    Take(rows, {i \in 1..Len(rows) : ~isna(rows[i].HIP)}, 1)

\* a variant: keep='last'
drop_duplicates_keep_last(rows) ==
    Take(rows, {i \in 1..Len(rows) :
                  \A j \in (i + 1)..Len(rows) : rows[j].HIP # rows[i].HIP}, 1)

\* df.drop_duplicates(subset=['HIP'], keep='first')
drop_duplicates(rows) ==
    Take(rows, {i \in 1..Len(rows) :
                  \A j \in 1..(i - 1) : rows[j].HIP # rows[i].HIP}, 1)

\* a variant: the upper limit is left out
vmag_mask_no_upper(r) ==
    /\ ~isna(r.Vmag)
    /\ r.Vmag[1] >= VmagMin

\* (df['Vmag'] >= -3) & (df['Vmag'] <= 20): a comparison with NaN is False
vmag_mask(r) ==
    /\ ~isna(r.Vmag)
    /\ r.Vmag[1] >= VmagMin
    /\ r.Vmag[1] <= VmagMax

\* a variant: df['Distance_pc'] > 0
distance_mask_drops_missing(r) ==
    /\ ~isna(r.Distance_pc)
    /\ r.Distance_pc[1] > 0

\* (df['Distance_pc'] > 0) | df['Distance_pc'].isna()
distance_mask(r) ==
    \/ (~isna(r.Distance_pc) /\ r.Distance_pc[1] > 0)
    \/ isna(r.Distance_pc)

filter_vmag(cols, rows) ==
    IF "Vmag" \in cols
    THEN Take(rows, {i \in 1..Len(rows) : vmag_mask(rows[i])}, 1)
    ELSE rows

filter_distance(cols, rows) ==
    IF "Distance_pc" \in cols
    THEN Take(rows, {i \in 1..Len(rows) : distance_mask(rows[i])}, 1)
    ELSE rows

\* df.dropna(subset=['HIP']) raises KeyError on a frame without the column
clean_raises(df) == "HIP" \notin df.cols

\* clean_and_validate_data(df), for a frame that has the HIP column: the
\* conversion, dropna, drop_duplicates, the Vmag filter and the distance
\* filter, each applied to the value of the step before
clean_and_validate_data(df) ==
    CHOOSE out \in
      {[cols |-> df.cols, rows |-> r5] :
         r5 \in {filter_distance(df.cols, r4) :
           r4 \in {filter_vmag(df.cols, r3) :
             r3 \in {drop_duplicates(r2) :
               r2 \in {dropna(r1) :
                 r1 \in {coerce(df.cols, df.rows)}}}}}} : TRUE


(***************************************************************************)
(* The destination collection.  A document has the three modelled fields;  *)
(* a field the frame had no column for is stored as NaN here.              *)
(***************************************************************************)
Doc(h, v, d) == [HIP |-> h, Vmag |-> v, Distance_pc |-> d]

\* collection.count_documents({})
count_documents(s) == BagCardinality(s)

hips(s) == {r.HIP : r \in BagToSet(s)}

\* two documents of the collection carry the same HIP key
has_duplicate_hip(s) ==
    \/ \E r \in BagToSet(s) : CopiesIn(r, s) > 1
    \/ Cardinality(hips(s)) < Cardinality(BagToSet(s))

\* the records of batch at the indexes ins, as a bag
batch_bag(batch, ins) ==
    LET S == {batch[k] : k \in ins}
    IN  IF Cardinality(S) = Cardinality(ins)
        THEN SetToBag(S)
        ELSE [r \in S |-> Cardinality({k \in ins : batch[k] = r})]

\* the records the unique index on HIP refuses: the key is in the collection
\* already, or earlier in the same batch
unique_rejects(s, uniq, batch) ==
    IF ~uniq THEN {}
    ELSE LET H == hips(s)
             n == Len(batch)
             distinct == Cardinality({batch[k].HIP : k \in 1..n}) = n
         IN  {k \in 1..n :
                \/ batch[k].HIP \in H
                \/ (~distinct /\ \E j \in 1..(k - 1) : batch[j].HIP = batch[k].HIP)}

\* the outcomes of insert_many(batch, ordered=False): the set of rejected
\* records.  Any record may be refused by the server for a reason of its own;
\* the model lets it happen to the first MaxRejectable records of a batch, and
\* to all of them at once (the operation itself fails).
reject_sets(s, uniq, batch) ==
    LET forced == unique_rejects(s, uniq, batch)
        head == 1..Min(Len(batch), MaxRejectable)
    IN  {forced \cup x : x \in SUBSET head} \cup {1..Len(batch)}

indexes_to_create ==
    <<"HIP", "Vmag", "Distance_pc", "SpType", "B-V",
      "sky_coordinates", "brightness_distance">>

csv_paths ==
    <<"./hipparcos-voidmain.csv", "/app/hipparcos-voidmain.csv",
      "/data/hipparcos-voidmain.csv">>

(***************************************************************************)
(* A process: the locals of one run, and counters of what the run did.     *)
(***************************************************************************)
NoFrame == [cols |-> {}, rows |-> <<>>]

\* the value of a call of create_database_indexes: none yet, Python's None
\* (the function has no return statement), or an integer
NotReturned == [kind |-> "pending", v |-> 0]
PyNone == [kind |-> "None", v |-> 0]
PyInt(n) == [kind |-> "int", v |-> n]

IdleProc ==
    [pc |-> "idle",
     runs |-> 0,              \* runs of the pipeline this process has started
     max_retries |-> 0,       \* wait_for_mongodb's parameter
     attempt |-> 0,           \* wait_for_mongodb's loop variable
     attempts |-> 0,          \* connection attempts made
     sleeps |-> 0,            \* calls of time.sleep
     wait_ret |-> "none",     \* what wait_for_mongodb returned
     opened |-> 0,            \* clients wait_for_mongodb constructed
     closed |-> 0,            \* clients wait_for_mongodb closed
     leaked |-> FALSE,        \* wait_for_mongodb left a client open
     connected |-> FALSE,     \* 'client' in locals() of import_star_data
     client_closed |-> FALSE, \* client.close() of the finally clause ran
     existing_count |-> -1,
     fast |-> FALSE,          \* the run skipped the import
     fs |-> {},               \* the candidate paths that exist
     csv_file |-> 0,          \* index in csv_paths of the file found, 0: None
     read_path |-> 0,         \* index in csv_paths of the file read_csv opened
     path_checks |-> 0,       \* calls of os.path.exists
     listed |-> <<>>,         \* the candidates logged as checked
     df |-> NoFrame,          \* df after clean_and_validate_data
     raw |-> NoFrame,         \* df as read_csv yielded it, given to cleaning
     records |-> <<>>,
     i |-> 0,
     total_inserted |-> 0,
     batches |-> <<>>,        \* the slices <<from, to>> given to insert_many
     written |-> 0,           \* records of this run the collection accepted
     failed |-> {},           \* the insert_many calls that raised, by number
     idx |-> 0,               \* indexes of indexes_to_create attempted
     created_count |-> 0,
     attempted |-> <<>>,      \* the names given to create_index, in call order
     index_outcome |-> "none",\* how the latest create_index call ended
     index_log |-> -1,        \* the count create_database_indexes logged
     index_ret |-> NotReturned, \* what create_database_indexes returned
     count_ops |-> 0,         \* count_documents calls issued
     final_count |-> -1,
     stats |-> "none",
     ret |-> "none",          \* what import_star_data returned
     why |-> "none",          \* the statement that made the run fail
     exit_code |-> -1]

Set(p, rec) == proc' = [proc EXCEPT ![p] = rec]

\* a variant: main ignores the result and exits with code 0
Return_exit_zero(rec, ok) ==
    [rec EXCEPT !.pc = "exit",
                !.ret = IF ok THEN "True" ELSE "False",
                !.client_closed = rec.connected,
                !.exit_code = 0]

\* import_star_data returns (its finally clause closes the client) and main
\* exits with the code of the result
Return(rec, ok) ==
    [rec EXCEPT !.pc = "exit",
                !.ret = IF ok THEN "True" ELSE "False",
                !.client_closed = rec.connected,
                !.exit_code = IF ok THEN 0 ELSE 1]

\* main() starts import_star_data, which calls wait_for_mongodb(uri, k)
Start(p, budgets, maxruns) ==
    /\ proc[p].pc \in {"idle", "exit"}
    /\ proc[p].runs < maxruns
    /\ \E k \in budgets :
         Set(p, [IdleProc EXCEPT !.pc = "wait",
                                 !.runs = proc[p].runs + 1,
                                 !.max_retries = k])
    /\ UNCHANGED <<store, unique_hip, store0>>

\* a variant: range(max_retries + 1)
wait_loop_runs_once_more(rec) == rec.attempt <= rec.max_retries

\* the loop of wait_for_mongodb runs while attempt is in range(max_retries)
wait_loop_runs(rec) == rec.attempt < rec.max_retries

\* a variant: time.sleep(3) only between two attempts
attempt_failed_no_last_sleep(rec) ==
    [rec EXCEPT !.attempts = @ + 1,
                !.opened = @ + 1,
                !.sleeps = IF rec.attempt + 1 < rec.max_retries
                           THEN @ + 1 ELSE @,
                !.attempt = @ + 1]

\* a variant: no except clause, the exception of the attempt ends the process
attempt_failed_raises(rec) ==
    [rec EXCEPT !.pc = "exit",
                !.attempts = @ + 1,
                !.opened = @ + 1,
                !.leaked = TRUE,
                !.exit_code = 1]

\* the except clause of wait_for_mongodb: the exception of the attempt is
\* logged, time.sleep(3) runs and the loop goes on; the client is not closed
attempt_failed(rec) ==
    [rec EXCEPT !.attempts = @ + 1,
                !.opened = @ + 1,
                !.sleeps = @ + 1,
                !.attempt = @ + 1]

\* one iteration of wait_for_mongodb's loop: server_info() answers, or raises
Attempt(p) ==
    LET rec == proc[p] IN
    /\ rec.pc = "wait"
    /\ wait_loop_runs(rec)
    /\ \/ Set(p, [rec EXCEPT !.pc = "connect",
                             !.attempts = @ + 1,
                             !.opened = @ + 1,
                             !.closed = @ + 1,
                             !.wait_ret = "True"])
       \/ Set(p, attempt_failed(rec))
    /\ UNCHANGED <<store, unique_hip, store0>>

\* the loop ends: wait_for_mongodb returns False and import_star_data exits
GiveUp(p) ==
    LET rec == proc[p] IN
    /\ rec.pc = "wait"
    /\ ~wait_loop_runs(rec)
    /\ Set(p, [rec EXCEPT !.pc = "exit",
                          !.wait_ret = "False",
                          !.leaked = rec.opened > rec.closed,
                          !.why = "wait",
                          !.exit_code = 1])
    /\ UNCHANGED <<store, unique_hip, store0>>

\* a variant: existing_count > 1
data_exists_more_than_one(n) == n > 1

\* existing_count > 0: the import is skipped
data_exists(n) == n > 0

\* a variant: the source file is located before the branch is taken
skip_import_after_locate(rec) == [rec EXCEPT !.fast = TRUE, !.pc = "locate"]

\* a variant: the branch returns True at once
skip_import_without_indexes(rec) == Return([rec EXCEPT !.fast = TRUE], TRUE)

\* the branch taken with data present: create_database_indexes is called, and
\* after it the run returns True
skip_import(rec) == [rec EXCEPT !.fast = TRUE, !.pc = "index"]

\* client = MongoClient(uri); existing_count = collection.count_documents({}),
\* which raises or answers; with data present the run goes on to the indexes
CheckExisting(p) ==
    LET rec == [proc[p] EXCEPT !.connected = TRUE,
                               !.leaked = proc[p].opened > proc[p].closed,
                               !.opened = 0,
                               !.closed = 0,
                               !.max_retries = 0,
                               !.attempt = 0,
                               !.attempts = 0,
                               !.sleeps = 0,
                               !.count_ops = @ + 1]
        n == count_documents(store)
    IN
    /\ proc[p].pc = "connect"
    /\ \/ Set(p, Return([rec EXCEPT !.why = "count"], FALSE))
       \/ Set(p, IF data_exists(n)
                 THEN skip_import([rec EXCEPT !.existing_count = n])
                 ELSE [rec EXCEPT !.existing_count = n, !.pc = "locate"])
    /\ UNCHANGED <<store, unique_hip, store0>>

\* a variant: the loop has no break, the last existing path is kept
first_existing_no_break(fs) ==
    IF \E k \in 1..Len(csv_paths) : k \in fs
    THEN CHOOSE k \in 1..Len(csv_paths) :
           k \in fs /\ \A j \in (k + 1)..Len(csv_paths) : j \notin fs
    ELSE 0

\* the first path of csv_paths that exists, 0 when none does
first_existing(fs) ==
    IF \E k \in 1..Len(csv_paths) : k \in fs
    THEN CHOOSE k \in 1..Len(csv_paths) :
           k \in fs /\ \A j \in 1..(k - 1) : j \notin fs
    ELSE 0

\* the loop over csv_paths with os.path.exists; without a file the candidates
\* are listed and import_star_data returns False
Locate(p) ==
    LET rec == proc[p] IN
    /\ rec.pc = "locate"
    /\ \E fs \in SUBSET (1..Len(csv_paths)) :
         LET f == first_existing(fs)
             found == [rec EXCEPT !.fs = fs, !.csv_file = f,
                                  !.path_checks = IF f = 0 THEN Len(csv_paths)
                                                  ELSE f]
         IN  IF f = 0
             THEN Set(p, Return([found EXCEPT !.listed = csv_paths,
                                              !.why = "not_found"], FALSE))
             ELSE Set(p, [found EXCEPT !.pc = "load"])
    /\ UNCHANGED <<store, unique_hip, store0>>

\* df = pd.read_csv(csv_file), which raises or yields one of the frames
Load(p, frames) ==
    LET rec == [proc[p] EXCEPT !.read_path = proc[p].csv_file] IN
    /\ proc[p].pc = "load"
    /\ \/ Set(p, Return([rec EXCEPT !.why = "read"], FALSE))
       \/ \E f \in frames : Set(p, [rec EXCEPT !.raw = f, !.pc = "clean"])
    /\ UNCHANGED <<store, unique_hip, store0>>

\* a variant: without records create_database_indexes is not called
after_clean_skips_indexes(n) == IF n > 0 THEN "insert" ELSE "verify"

\* with n records the insert loop runs before create_database_indexes; with
\* none its body never runs
after_clean(n) == IF n > 0 THEN "insert" ELSE "index"

\* df = clean_and_validate_data(df); records = df.to_dict('records'); the
\* KeyError of a frame without HIP reaches the handler of import_star_data
CleanStep(p) ==
    LET rec == [proc[p] EXCEPT !.fs = {}, !.csv_file = 0, !.read_path = 0,
                               !.path_checks = 0]
    IN
    /\ rec.pc = "clean"
    /\ IF clean_raises(rec.raw)
       THEN Set(p, Return([rec EXCEPT !.raw = NoFrame, !.why = "clean"], FALSE))
       ELSE LET out == clean_and_validate_data(rec.raw)
            IN  Set(p, [rec EXCEPT !.df = out,
                                   !.records = out.rows,
                                   !.i = 0,
                                   !.total_inserted = 0,
                                   !.pc = after_clean(Len(out.rows))])
    /\ UNCHANGED <<store, unique_hip, store0>>

\* a variant: records[i:i + batch_size + 1]
batch_slice_one_more(i, bs, n) == <<i + 1, Min(i + bs + 1, n)>>

\* records[i:i + batch_size], as the positions <<from, to>> of the slice
batch_slice(i, bs, n) == <<i + 1, Min(i + bs, n)>>

\* a variant: the loop does not move on from a batch that raised
loop_waits_on_error(i, bs, n, raised) == i + bs < n \/ raised

\* a variant: the except clause leaves the loop
loop_stops_on_error(i, bs, n, raised) == i + bs < n /\ ~raised

\* the loop over range(0, len(records), batch_size) has a next iteration,
\* whether or not insert_many raised
loop_goes_on(i, bs, n, raised) == i + bs < n

\* total_inserted after one insert_many: len(result.inserted_ids) is added
\* when the call returns, nothing when it raises
total_after(total, batch_len, rejected) ==
    IF rejected = {} THEN total + batch_len ELSE total

\* a variant: the collection is emptied before the batch is written
insert_many_into_emptied(s, batch, ins) == batch_bag(batch, ins)

\* the collection after insert_many(batch, ordered=False) wrote the records
\* of the batch at the positions ins: they are added, nothing else changes
insert_many(s, batch, ins) == s (+) batch_bag(batch, ins)

\* one iteration of the insert loop: insert_many(batch, ordered=False) writes
\* the records the server accepts and raises when it rejected any
InsertBatch(p, bs) ==
    LET rec == proc[p]
        n == Len(rec.records)
        sl == batch_slice(rec.i, bs, n)
        batch == SubSeq(rec.records, sl[1], sl[2])
    IN
    /\ rec.pc = "insert"
    /\ rec.i < n
    /\ \E rejected \in reject_sets(store, unique_hip, batch) :
         LET ins == (1..Len(batch)) \ rejected IN
         /\ store' = insert_many(store, batch, ins)
         /\ Set(p, [rec EXCEPT
                      !.raw = NoFrame,
                      !.batches = Append(@, sl),
                      !.written = @ + Cardinality(ins),
                      !.failed = IF rejected = {} THEN @
                                 ELSE @ \cup {Len(rec.batches) + 1},
                      !.total_inserted = total_after(@, Len(batch), rejected),
                      !.i = IF loop_goes_on(rec.i, bs, n, rejected # {})
                            THEN rec.i + bs ELSE rec.i,
                      !.pc = IF loop_goes_on(rec.i, bs, n, rejected # {})
                             THEN "insert" ELSE "index"])
    /\ UNCHANGED <<unique_hip, store0>>

\* a variant: the skipped import goes on to the verification and statistics
after_indexes_always_verify(rec) == [rec EXCEPT !.pc = "verify"]

\* after create_database_indexes the skipped import returns True, the import
\* goes on to the verification
after_indexes(rec) ==
    IF rec.fast THEN Return(rec, TRUE) ELSE [rec EXCEPT !.pc = "verify"]

\* a variant: the except clause leaves the loop over indexes_to_create
index_failed_stops(rec, name) ==
    [rec EXCEPT !.idx = Len(indexes_to_create),
                !.attempted = Append(@, name),
                !.index_outcome = "failed"]

\* create_index raised: the except clause logs a warning, the loop goes on
index_failed(rec, name) ==
    [rec EXCEPT !.idx = @ + 1,
                !.attempted = Append(@, name),
                !.index_outcome = "failed"]

\* create_index returned: created_count += 1
index_created(rec, name) ==
    [rec EXCEPT !.idx = @ + 1,
                !.attempted = Append(@, name),
                !.index_outcome = "ok",
                !.created_count = @ + 1]

\* one iteration of create_database_indexes: create_index succeeds or raises;
\* the unique index cannot be built over duplicate keys
CreateIndex(p) ==
    LET rec == [proc[p] EXCEPT !.raw = NoFrame]
        name == indexes_to_create[rec.idx + 1]
    IN
    /\ rec.pc = "index"
    /\ rec.idx < Len(indexes_to_create)
    /\ \/ /\ name = "HIP" => ~has_duplicate_hip(store)
          /\ unique_hip' = (unique_hip \/ name = "HIP")
          /\ Set(p, index_created(rec, name))
       \/ /\ unique_hip' = unique_hip
          /\ Set(p, index_failed(rec, name))
    /\ UNCHANGED <<store, store0>>

\* the value of the call: the function ends after its last log line, without
\* a return statement
indexes_return(rec) == PyNone

\* the loop over indexes_to_create is over: create_database_indexes logs
\* created_count and returns to import_star_data, which goes on
IndexesDone(p) ==
    LET rec == proc[p] IN
    /\ rec.pc = "index"
    /\ rec.idx = Len(indexes_to_create)
    /\ Set(p, after_indexes([rec EXCEPT !.index_outcome = "none",
                                        !.index_log = rec.created_count,
                                        !.index_ret = indexes_return(rec)]))
    /\ UNCHANGED <<store, unique_hip, store0>>

\* final_count = collection.count_documents({}), which raises or answers
Verify(p) ==
    LET rec == [proc[p] EXCEPT !.count_ops = @ + 1] IN
    /\ proc[p].pc = "verify"
    /\ \/ Set(p, Return([rec EXCEPT !.why = "verify"], FALSE))
       \/ Set(p, [rec EXCEPT !.final_count = count_documents(store),
                             !.pc = "stats"])
    /\ UNCHANGED <<store, unique_hip, store0>>

\* a variant: the exception of the statistics reaches the outer handler
after_stats_fatal(rec, outcome) ==
    Return([rec EXCEPT !.stats = outcome,
                       !.why = IF outcome = "ok" THEN "none" ELSE "stats"],
           outcome = "ok")

\* the statistics were logged, or their exception was logged as a warning:
\* import_star_data returns True
after_stats(rec, outcome) == Return([rec EXCEPT !.stats = outcome], TRUE)

\* collection.aggregate(pipeline) answers or raises
Stats(p) ==
    LET rec == proc[p] IN
    /\ rec.pc = "stats"
    /\ \E outcome \in {"ok", "failed"} : Set(p, after_stats(rec, outcome))
    /\ UNCHANGED <<store, unique_hip, store0>>

(***************************************************************************)
(* The inputs.                                                             *)
(***************************************************************************)
Row(h, v, d) == [HIP |-> h, Vmag |-> v, Distance_pc |-> d]

\* the kinds of row of the pipeline's source files; the row at position k is
\* a new star k, except that "dup" repeats the HIP of the row before it, as a
\* string, and "nohip" has none
RowKinds == {"good", "dup", "faint", "nodist", "zerodist", "nohip", "novmag"}

RowOf(kind, k) ==
    CASE kind = "good"     -> Row(RawNum(k), RawNum(5), RawNum(10))
      [] kind = "dup"      -> Row(RawStr(IF k > 1 THEN k - 1 ELSE k),
                                  RawNum(7), RawNum(10))
      [] kind = "faint"    -> Row(RawNum(k), RawNum(25), RawNum(10))
      [] kind = "nodist"   -> Row(RawNum(k), RawNum(5), RawEmpty)
      [] kind = "zerodist" -> Row(RawNum(k), RawNum(5), RawNum(0))
      [] kind = "nohip"    -> Row(RawEmpty, RawNum(5), RawNum(10))
      [] kind = "novmag"   -> Row(RawNum(k), RawJunk, RawNum(10))

\* a row of a frame that has only the columns cols
Restrict(cols, r) == [c \in Columns |-> IF c \in cols THEN r[c] ELSE RawEmpty]

\* the frames pd.read_csv yields in the pipeline runs
PipelineFrames ==
    {[cols |-> Columns, rows |-> [k \in 1..n |-> RowOf(f[k], k)]] :
        n \in 0..MaxRows, f \in [1..MaxRows -> RowKinds]}
    \cup {[cols |-> c, rows |-> <<Restrict(c, RowOf("good", 1))>>] :
            c \in SUBSET Columns}

\* the frames given to clean_and_validate_data alone
HipCells == {RawEmpty, RawJunk, RawNum(1), RawStr(1), RawNum(2)}
VmagCells == {RawEmpty, RawJunk, RawNum(VmagMin - 1), RawNum(VmagMin),
              RawNum(VmagMax), RawNum(VmagMax + 1)}
DistanceCells == {RawEmpty, RawNum(0), RawNum(1)}

CleanRows(cols) ==
    {Restrict(cols, Row(h, v, d)) :
        h \in HipCells, v \in VmagCells, d \in DistanceCells}

CleanColumnSets ==
    {Columns, Columns \ {"Vmag"}, Columns \ {"Distance_pc"}, Columns \ {"HIP"}}

\* what the collection may hold before the first run: nothing, or documents
\* written by someone else, valid or not
InitStores ==
    {EmptyBag,
     SetToBag({Doc(Num(1), Num(5), Num(10))}),
     SetToBag({Doc(Num(1), Num(25), Num(0))}) (+) SetToBag({Doc(Num(1), Num(25), Num(0))})}

RetryBudgets == (0..MaxRetries) \cup {default_max_retries}

(***************************************************************************)
(* The pipeline run by one process, any number of times up to MaxRuns.     *)
(***************************************************************************)
Init ==
    /\ store \in InitStores
    /\ store0 = store
    /\ unique_hip \in {u \in BOOLEAN : u => ~has_duplicate_hip(store)}
    /\ proc = [p \in Procs |-> IdleProc]

Next ==
    \E p \in {1} :
        \/ Start(p, RetryBudgets, MaxRuns)
        \/ Attempt(p)
        \/ GiveUp(p)
        \/ CheckExisting(p)
        \/ Locate(p)
        \/ Load(p, PipelineFrames)
        \/ CleanStep(p)
        \/ InsertBatch(p, ScaledBatch)
        \/ CreateIndex(p)
        \/ IndexesDone(p)
        \/ Verify(p)
        \/ Stats(p)

Spec == Init /\ [][Next]_vars

(***************************************************************************)
(* One run of the pipeline in which every call to the store, the           *)
(* filesystem and time.sleep returns or raises: a step of the run that can *)
(* be taken is taken.                                                      *)
(***************************************************************************)
\* source files of 0..MaxRows valid rows, and one without HIP column: the
\* course of a run depends on the frame by the number of records alone
LiveFrames ==
    {[cols |-> Columns, rows |-> [k \in 1..n |-> RowOf("good", k)]] :
        n \in 0..MaxRows}
    \cup {[cols |-> {"Vmag"}, rows |-> <<Restrict({"Vmag"}, RowOf("good", 1))>>]}

Step(p) ==
    \/ Attempt(p)
    \/ GiveUp(p)
    \/ CheckExisting(p)
    \/ Locate(p)
    \/ Load(p, LiveFrames)
    \/ CleanStep(p)
    \/ InsertBatch(p, ScaledBatch)
    \/ CreateIndex(p)
    \/ IndexesDone(p)
    \/ Verify(p)
    \/ Stats(p)

NextLive == Start(1, RetryBudgets, 1) \/ Step(1)

\* the position of the run: every step of a run changes it
position == <<proc[1].pc, proc[1].attempt, proc[1].i, proc[1].idx>>

SpecLive == Init /\ [][NextLive]_vars /\ WF_position(Step(1))

(***************************************************************************)
(* clean_and_validate_data alone: a run that has just read a frame.        *)
(***************************************************************************)
ReadProc(f) ==
    [IdleProc EXCEPT !.pc = "clean",
                     !.runs = 1,
                     !.wait_ret = "True",
                     !.connected = TRUE,
                     !.count_ops = 1,
                     !.existing_count = 0,
                     !.raw = f]

InitClean ==
    /\ store = EmptyBag
    /\ store0 = EmptyBag
    /\ unique_hip = FALSE
    /\ \E c \in CleanColumnSets, n \in 0..MaxCleanRows :
         \E r \in [1..n -> CleanRows(c)] :
            proc = [p \in Procs |->
                      IF p = 1 THEN ReadProc([cols |-> c, rows |-> r])
                      ELSE IdleProc]

NextClean == CleanStep(1)

SpecClean == InitClean /\ [][NextClean]_vars

(***************************************************************************)
(* The insert loop alone, with the batch size of the code: a run that has  *)
(* cleaned a frame of n rows, all of them valid, against an empty          *)
(* collection.                                                             *)
(***************************************************************************)
LoaderSizes ==
    {1, batch_size - 1, batch_size, batch_size + 1, batch_size + 2000,
     2 * batch_size, 2 * batch_size + 1}

CleanedRows(n) == [k \in 1..n |-> Doc(Num(k), Num(5), Num(10))]

CleanedProc(n) ==
    [IdleProc EXCEPT !.pc = "insert",
                     !.runs = 1,
                     !.wait_ret = "True",
                     !.connected = TRUE,
                     !.count_ops = 1,
                     !.existing_count = 0,
                     !.df = [cols |-> Columns, rows |-> CleanedRows(n)],
                     !.records = CleanedRows(n)]

InitLoader ==
    /\ store = EmptyBag
    /\ store0 = EmptyBag
    /\ unique_hip \in BOOLEAN
    /\ \E n \in LoaderSizes :
         proc = [p \in Procs |-> IF p = 1 THEN CleanedProc(n) ELSE IdleProc]

NextLoader == InsertBatch(1, batch_size)

SpecLoader == InitLoader /\ [][NextLoader]_vars

(***************************************************************************)
(* Two processes started together against an empty collection without      *)
(* indexes, one run each.                                                  *)
(***************************************************************************)
RaceFrames ==
    {[cols |-> Columns, rows |-> [k \in 1..n |-> RowOf("good", k)]] :
        n \in {1, ScaledBatch + 1}}

InitRace ==
    /\ store = EmptyBag
    /\ store0 = EmptyBag
    /\ unique_hip = FALSE
    /\ proc = [p \in Procs |-> IdleProc]

NextRace ==
    \E p \in Procs :
        \/ Start(p, {1}, 1)
        \/ Attempt(p)
        \/ GiveUp(p)
        \/ CheckExisting(p)
        \/ Locate(p)
        \/ Load(p, RaceFrames)
        \/ CleanStep(p)
        \/ InsertBatch(p, ScaledBatch)
        \/ CreateIndex(p)
        \/ IndexesDone(p)
        \/ Verify(p)
        \/ Stats(p)

SpecRace == InitRace /\ [][NextRace]_vars

(***************************************************************************)
(* Properties of clean_and_validate_data.  They are read in the state      *)
(* right after the cleaning, where raw is the frame that was given and     *)
(* records the rows that came out.                                         *)
(***************************************************************************)
Cleaned(p) ==
    /\ proc[p].pc \in {"insert", "index"}
    /\ proc[p].raw # NoFrame

\* the cell of column c in row r of a frame with columns cols holds a number
Present(cols, r, c) == c \in cols /\ r[c].k \in {"num", "str"}

\* output row o is input row r, converted
SameRow(o, cols, r) ==
    \A c \in Columns : o[c] = IF Present(cols, r, c) THEN Num(r[c].v) ELSE NaN

\* input row i is the first row of the frame with its HIP value
FirstOfHip(cols, rows, i) ==
    /\ Present(cols, rows[i], "HIP")
    /\ \A j \in 1..(i - 1) :
         ~(Present(cols, rows[j], "HIP") /\ rows[j].HIP.v = rows[i].HIP.v)

VmagOutOfRange(cols, r) ==
    /\ Present(cols, r, "Vmag")
    /\ (r.Vmag.v < VmagMin \/ r.Vmag.v > VmagMax)

DistanceNotPositive(cols, r) ==
    /\ Present(cols, r, "Distance_pc")
    /\ r.Distance_pc.v <= 0

\* the output rows with HIP value h
OutWithHip(out, h) == {k \in 1..Len(out) : out[k].HIP = Num(h)}

\* C1: a row whose Vmag is present and outside [-3, 20] is dropped, and a row
\* whose Vmag is absent (missing or unparseable) is retained, provided it
\* passes the HIP, duplicate and distance checks.
C1_VmagFilter ==
    Cleaned(1) =>
      LET cols == proc[1].raw.cols
          rows == proc[1].raw.rows
          out == proc[1].records
      IN  \A i \in 1..Len(rows) :
            /\ VmagOutOfRange(cols, rows[i]) =>
                 \A k \in 1..Len(out) : ~SameRow(out[k], cols, rows[i])
            /\ (/\ ~Present(cols, rows[i], "Vmag")
                /\ FirstOfHip(cols, rows, i)
                /\ ~DistanceNotPositive(cols, rows[i])) =>
                 \E k \in 1..Len(out) : SameRow(out[k], cols, rows[i])

NoSharedHip(s) ==
    /\ \A r \in BagToSet(s) : CopiesIn(r, s) = 1
    /\ \A r1, r2 \in BagToSet(s) : r1 # r2 => r1.HIP # r2.HIP

\* C3, as claimed: with two runs racing against an empty collection, the
\* collection never holds two records with the same HIP value.
C3_RaceNoDuplicateHip == NoSharedHip(store)

\* C4: after a run that started from an empty collection, the collection
\* holds at most one record per HIP, none without HIP, a present Vmag is
\* within [-3, 20] and a present Distance_pc is > 0.
C4_StoredRecordsValid ==
    store0 = EmptyBag =>
      /\ NoSharedHip(store)
      /\ \A r \in BagToSet(store) :
           /\ r.HIP # NaN
           /\ r.Vmag # NaN => (r.Vmag[1] >= VmagMin /\ r.Vmag[1] <= VmagMax)
           /\ r.Distance_pc # NaN => r.Distance_pc[1] > 0

\* a first run from an empty collection has ended well and left records
C4_Witness ==
    /\ store0 = EmptyBag
    /\ proc[1].pc = "exit"
    /\ proc[1].runs = 1
    /\ proc[1].ret = "True"
    /\ BagCardinality(store) >= 2

\* C5: a collection that holds N > 0 records keeps N records over any number
\* of runs, and every run whose emptiness check was answered ends with
\* success.
C5_FastPathIdempotent ==
    store0 # EmptyBag =>
      /\ BagCardinality(store) = BagCardinality(store0)
      /\ (proc[1].pc = "exit" /\ proc[1].existing_count >= 0) =>
           (proc[1].fast /\ proc[1].ret = "True" /\ proc[1].exit_code = 0)

\* a second run over a populated collection has ended
C5_Witness ==
    /\ store0 # EmptyBag
    /\ proc[1].pc = "exit"
    /\ proc[1].runs >= 2
    /\ proc[1].fast
    /\ proc[1].exit_code = 0

\* C6: a run whose emptiness check found N > 0 records issues no insert and
\* attempts every one of the seven indexes.
C6_SkipInsertsKeepsIndexes ==
    proc[1].existing_count > 0 =>
      /\ proc[1].batches = <<>>
      /\ proc[1].written = 0
      /\ proc[1].pc = "exit" => proc[1].idx = 7

\* a run that found records has ended, the seven indexes attempted
C6_Witness ==
    /\ proc[1].pc = "exit"
    /\ proc[1].existing_count > 0
    /\ proc[1].idx = Len(indexes_to_create)
    /\ proc[1].batches = <<>>

\* C7, as claimed: the total the loader reports is the number of records the
\* collection accepted, whatever records were rejected.
C7_TotalIsWritten ==
    proc[1].pc \in {"index", "verify", "stats", "exit"} =>
      proc[1].total_inserted = proc[1].written

\* the number of batches of n records
NumBatches(n) == (n + batch_size - 1) \div batch_size

LoaderDone == proc[1].pc = "index" /\ proc[1].records # <<>>

\* C8: n records are inserted in ceil(n / 5000) operations, on consecutive
\* slices in order, each of 5000 records but possibly the last, and without
\* a failure the reported total is n.
C8_BatchesOf5000 ==
    LoaderDone =>
      LET n == Len(proc[1].records)
          b == proc[1].batches
      IN  /\ Len(b) = NumBatches(n)
          /\ \A k \in 1..Len(b) :
               /\ b[k][1] = (k - 1) * 5000 + 1
               /\ b[k][2] = IF k < Len(b) THEN k * 5000 ELSE n
          /\ proc[1].failed = {} => proc[1].total_inserted = n

\* 7000 records went in as 5000 and 2000, and 7000 are reported
C8_Witness ==
    /\ LoaderDone
    /\ Len(proc[1].records) = 7000
    /\ proc[1].batches = <<(<<1, 5000>>), (<<5001, 7000>>)>>
    /\ proc[1].total_inserted = 7000

\* C9: a failed insert does not end the loop: the number of insert
\* operations is the same whatever batches fail.
C9_FailedBatchNotFatal ==
    LoaderDone =>
      /\ Len(proc[1].batches) = NumBatches(Len(proc[1].records))
      /\ proc[1].failed \subseteq 1..Len(proc[1].batches)

\* the first of three inserts failed, and the other two were issued
C9_Witness ==
    /\ LoaderDone
    /\ 1 \in proc[1].failed
    /\ Len(proc[1].batches) = 3

\* C10: wait_for_mongodb without an answer makes max_retries attempts and
\* returns False; the process exits with code 1, having opened no collection
\* and issued no count, insert or create-index operation.
C10_WaitExhausted ==
    /\ proc[1].pc = "wait" =>
         (proc[1].attempts <= proc[1].max_retries /\ proc[1].count_ops = 0)
    /\ (proc[1].pc = "exit" /\ proc[1].wait_ret = "False") =>
         /\ proc[1].attempts = proc[1].max_retries
         /\ proc[1].exit_code = 1
         /\ ~proc[1].connected
         /\ proc[1].count_ops = 0
         /\ proc[1].batches = <<>>
         /\ proc[1].idx = 0

\* three attempts went unanswered and the process has exited
C10_Witness ==
    /\ proc[1].pc = "exit"
    /\ proc[1].wait_ret = "False"
    /\ proc[1].max_retries = 3
    /\ proc[1].attempts = 3
    /\ proc[1].exit_code = 1

\* C11: wait_for_mongodb returns True at the first attempt that is answered
\* and makes no further attempt; it returns False only after max_retries
\* attempts that all failed; the exception of an attempt never leaves the
\* function, so that the wait ends by one of the two returns.
C11_WaitReturns ==
    /\ proc[1].pc \notin {"idle", "wait"} =>
         proc[1].wait_ret \in {"True", "False"}
    /\ proc[1].wait_ret = "True" => proc[1].pc # "wait"
    /\ proc[1].pc = "connect" =>
         /\ proc[1].wait_ret = "True"
         /\ proc[1].attempts = proc[1].attempt + 1
         /\ proc[1].sleeps = proc[1].attempt
         /\ proc[1].attempts <= proc[1].max_retries
         /\ proc[1].closed = 1
    /\ proc[1].wait_ret = "False" =>
         /\ proc[1].pc = "exit"
         /\ proc[1].attempt = proc[1].max_retries
         /\ proc[1].attempts = proc[1].max_retries
         /\ proc[1].sleeps = proc[1].max_retries

\* the second attempt of three was answered, after one failure
C11_Witness ==
    /\ proc[1].pc = "connect"
    /\ proc[1].max_retries = 3
    /\ proc[1].attempt = 1
    /\ proc[1].attempts = 2
    /\ proc[1].wait_ret = "True"

\* the causes of exit code 1 the claim C12 names
NamedFailures == {"wait", "not_found", "read"}

\* the statements of import_star_data whose exception reaches its handler
\* 'except Exception', which returns False
HandlerFailures == {"count", "clean", "verify"}

\* C12 as stated: the process exits with code 1 only from the exhausted wait,
\* the missing source file or the error of reading it, and with code 0 on
\* every other run.
C12_FailedOnlyFromThree ==
    proc[1].pc = "exit" =>
      /\ proc[1].exit_code \in {0, 1}
      /\ proc[1].exit_code = 1 <=> proc[1].why \in NamedFailures

\* C12 amended: the process exits with code 1 from the exhausted wait, the
\* missing source file, the error of reading it, or an exception that reaches
\* the handler of import_star_data (a count_documents call that raises, the
\* cleaning of a frame without HIP column); it exits with code 0 on every
\* other run, the skipped import included.
C12_FailedCauses ==
    proc[1].pc = "exit" =>
      /\ proc[1].exit_code \in {0, 1}
      /\ proc[1].exit_code = 1 <=>
           proc[1].why \in NamedFailures \cup HandlerFailures
      /\ proc[1].exit_code = 0 <=> proc[1].ret = "True"
      /\ proc[1].why = "wait" <=> proc[1].wait_ret = "False"
      /\ (proc[1].fast /\ proc[1].why # "count") => proc[1].exit_code = 0

\* records were inserted and indexed, the final count raised: exit code 1
C12_Witness ==
    /\ proc[1].pc = "exit"
    /\ proc[1].why = "verify"
    /\ proc[1].written > 0
    /\ proc[1].idx = Len(indexes_to_create)
    /\ proc[1].exit_code = 1

\* C13: the errors of insert_many, of create_index and of the statistics do
\* not fail the run: a run that reached the statistics exits with code 0
\* whatever failed, and after the first insert or create_index call the only
\* failure left is the final count.
C13_ErrorsNotFatal ==
    proc[1].pc = "exit" =>
      /\ proc[1].stats # "none" =>
           (proc[1].exit_code = 0 /\ proc[1].ret = "True")
      /\ (proc[1].exit_code = 1 /\ (proc[1].batches # <<>> \/ proc[1].idx > 0))
           => proc[1].why = "verify"

\* both inserts, all seven indexes and the statistics failed: exit code 0
C13_Witness ==
    /\ proc[1].pc = "exit"
    /\ Len(proc[1].batches) = 2
    /\ proc[1].failed = {1, 2}
    /\ proc[1].idx = Len(indexes_to_create)
    /\ proc[1].created_count = 0
    /\ proc[1].stats = "failed"
    /\ proc[1].exit_code = 0

\* C14 as stated: every run that gets past the wait attempts the creation of
\* the indexes before it ends, the runs that end over a missing or unreadable
\* source file included.
C14_IndexesOnEveryRun ==
    (proc[1].pc = "exit" /\ proc[1].wait_ret = "True") =>
      proc[1].attempted = indexes_to_create

\* C14 amended: every run that ends with code 0, import or skipped import,
\* has attempted the creation of the seven indexes; a run that ends because
\* the emptiness check raised, the source file is missing or unreadable, or
\* the cleaning raised, ends without any create_index call.
C14_IndexesOnDoneRuns ==
    proc[1].pc = "exit" =>
      /\ proc[1].exit_code = 0 =>
           (proc[1].attempted = indexes_to_create /\ proc[1].index_log >= 0)
      /\ proc[1].why = "verify" => proc[1].attempted = indexes_to_create
      /\ proc[1].why \in {"count", "not_found", "read", "clean"} =>
           (proc[1].attempted = <<>> /\ proc[1].idx = 0)

\* an import without any record to insert still went through the indexes
C14_Witness ==
    /\ proc[1].pc = "exit"
    /\ proc[1].exit_code = 0
    /\ ~proc[1].fast
    /\ proc[1].batches = <<>>
    /\ proc[1].attempted = indexes_to_create

\* create_database_indexes returns in this step
IndexesReturn ==
    /\ proc[1].index_ret = NotReturned
    /\ proc'[1].index_ret # NotReturned

\* C15 as stated: create_database_indexes attempts the seven indexes once
\* each, in the fixed order, and returns the count of the creations that
\* succeeded.
C15_IndexesReturnCount ==
    proc[1].index_ret # NotReturned =>
      /\ proc[1].attempted = indexes_to_create
      /\ proc[1].index_ret = PyInt(proc[1].created_count)

\* C15 amended: create_database_indexes attempts the seven indexes once each,
\* in the fixed order, whatever fails; created_count grows by one with each
\* creation that succeeds and is logged; the function returns None.
C15_SevenInOrderCountLogged ==
    [][/\ proc'[1].idx = proc[1].idx + 1 =>
            /\ proc'[1].attempted =
                 Append(proc[1].attempted, indexes_to_create[proc'[1].idx])
            /\ proc'[1].created_count = proc[1].created_count +
                 (IF proc'[1].index_outcome = "ok" THEN 1 ELSE 0)
       /\ (proc'[1].idx # proc[1].idx /\ proc'[1].pc # "wait") =>
            proc'[1].idx = proc[1].idx + 1
       /\ IndexesReturn =>
            /\ proc[1].attempted = indexes_to_create
            /\ proc'[1].attempted = indexes_to_create
            /\ proc'[1].index_log = proc[1].created_count
            /\ proc'[1].index_ret = PyNone]_vars

\* the unique index failed over duplicates, the six others were created: six
\* is logged and None returned
C15_Witness ==
    /\ proc[1].index_ret = PyNone
    /\ proc[1].attempted = indexes_to_create
    /\ ~unique_hip
    /\ proc[1].created_count = 6
    /\ proc[1].index_log = 6

\* C16 as stated: every run that ends with code 0 went through the indexes
\* and then through the statistics, the skipped import included.
C16_DoneThroughReporting ==
    (proc[1].pc = "exit" /\ proc[1].exit_code = 0) =>
      /\ proc[1].idx = Len(indexes_to_create)
      /\ proc[1].final_count >= 0
      /\ proc[1].stats # "none"

\* C16 amended: every run that ends with code 0 went through the indexes; an
\* import then went through the final count and the statistics, the skipped
\* import returns after the indexes without them.
C16_DoneThroughIndexing ==
    /\ proc[1].pc \in {"verify", "stats"} =>
         (proc[1].idx = Len(indexes_to_create) /\ ~proc[1].fast)
    /\ proc[1].pc = "stats" => proc[1].final_count >= 0
    /\ (proc[1].pc = "exit" /\ proc[1].exit_code = 0) =>
         /\ proc[1].idx = Len(indexes_to_create)
         /\ proc[1].index_ret # NotReturned
         /\ proc[1].fast =>
              (proc[1].final_count = -1 /\ proc[1].stats = "none")
         /\ ~proc[1].fast =>
              (proc[1].final_count >= 0 /\ proc[1].stats # "none")

\* an import wrote records, created indexes, counted and logged statistics
C16_Witness ==
    /\ proc[1].pc = "exit"
    /\ proc[1].exit_code = 0
    /\ ~proc[1].fast
    /\ proc[1].written > 0
    /\ proc[1].idx = Len(indexes_to_create)
    /\ proc[1].stats = "ok"

\* C17: at exit no client the run opened is left open: the client of
\* import_star_data is closed, and so is every client an attempt of
\* wait_for_mongodb constructed.
C17_EveryClientClosed ==
    proc[1].pc = "exit" =>
      /\ ~proc[1].leaked
      /\ proc[1].connected => proc[1].client_closed

\* C18: no input row whose HIP is missing or unparseable is among the cleaned
\* rows, and so among the records given to insert_many: every record has a
\* HIP and is the conversion of an input row whose HIP is present.
C18_NoMissingHipInOutput ==
    Cleaned(1) =>
      LET cols == proc[1].raw.cols
          rows == proc[1].raw.rows
          out == proc[1].records
      IN  /\ out = proc[1].df.rows
          /\ \A k \in 1..Len(out) :
               /\ ~isna(out[k].HIP)
               /\ \E i \in 1..Len(rows) :
                    Present(cols, rows[i], "HIP") /\ SameRow(out[k], cols, rows[i])
          /\ \A i \in 1..Len(rows) :
               ~Present(cols, rows[i], "HIP") =>
                 ~\E k \in 1..Len(out) : SameRow(out[k], cols, rows[i])

\* a row with an unparseable HIP and a row with an empty HIP went in with a
\* valid row, and only the valid row came out
C18_Witness ==
    /\ Cleaned(1)
    /\ Len(proc[1].raw.rows) = 2
    /\ proc[1].raw.rows[1].HIP \in {RawJunk, RawEmpty}
    /\ Present(proc[1].raw.cols, proc[1].raw.rows[2], "HIP")
    /\ Len(proc[1].records) = 1

\* input row i passes the steps before the distance filter whatever its
\* distance: it is the first row with its HIP and its Vmag (when there is
\* such a column) is present and in range
PassesBeforeDistance(cols, rows, i) ==
    /\ FirstOfHip(cols, rows, i)
    /\ "Vmag" \in cols =>
         (Present(cols, rows[i], "Vmag") /\ ~VmagOutOfRange(cols, rows[i]))

\* C19: a row whose Distance_pc is present and not above 0 is dropped; a row
\* whose Distance_pc is absent is not dropped by the distance filter: it is
\* among the cleaned rows whenever it passes the steps before.
C19_DistanceFilter ==
    Cleaned(1) =>
      LET cols == proc[1].raw.cols
          rows == proc[1].raw.rows
          out == proc[1].records
      IN  \A i \in 1..Len(rows) :
            /\ DistanceNotPositive(cols, rows[i]) =>
                 ~\E k \in 1..Len(out) : SameRow(out[k], cols, rows[i])
            /\ (~Present(cols, rows[i], "Distance_pc")
                  /\ PassesBeforeDistance(cols, rows, i)) =>
                 \E k \in 1..Len(out) : SameRow(out[k], cols, rows[i])

\* of a row without distance and a row with distance 0, the first came out
C19_Witness ==
    /\ Cleaned(1)
    /\ "Distance_pc" \in proc[1].raw.cols
    /\ Len(proc[1].raw.rows) = 2
    /\ ~Present(proc[1].raw.cols, proc[1].raw.rows[1], "Distance_pc")
    /\ DistanceNotPositive(proc[1].raw.cols, proc[1].raw.rows[2])
    /\ Len(proc[1].records) = 1
    /\ SameRow(proc[1].records[1], proc[1].raw.cols, proc[1].raw.rows[1])

\* C20: the file read is the first of the three candidates that exists, in
\* the order cwd, /app, /data; when none exists nothing is read, inserted or
\* indexed, the three candidates are listed and the process exits with 1.
C20_FirstExistingPath ==
    /\ proc[1].pc \in {"load", "clean"} =>
         /\ proc[1].csv_file \in proc[1].fs
         /\ \A j \in 1..(proc[1].csv_file - 1) : j \notin proc[1].fs
    /\ proc[1].pc = "load" => proc[1].read_path = 0
    /\ (proc[1].pc = "clean" \/ proc[1].why = "read") =>
         (proc[1].read_path = proc[1].csv_file /\ proc[1].read_path # 0)
    /\ proc[1].fs = {} =>
         (proc[1].read_path = 0 /\ proc[1].pc \notin {"load", "clean"})
    /\ proc[1].listed # <<>> <=> proc[1].why = "not_found"
    /\ proc[1].why = "not_found" =>
         /\ proc[1].pc = "exit"
         /\ proc[1].fs = {}
         /\ proc[1].listed = csv_paths
         /\ proc[1].exit_code = 1
         /\ proc[1].read_path = 0
         /\ proc[1].raw = NoFrame
         /\ proc[1].df = NoFrame
         /\ proc[1].batches = <<>>
         /\ proc[1].written = 0
         /\ proc[1].idx = 0

\* without a file in cwd, the file of /app was read though /data has one too
C20_Witness ==
    /\ proc[1].pc = "clean"
    /\ proc[1].fs = {2, 3}
    /\ proc[1].read_path = 2
    /\ proc[1].raw # NoFrame

\* the number of records of the collection
Size(s) == BagCardinality(s)

\* C21: no step of a run updates or deletes a record: the collection only
\* grows, by the records the step's insert_many wrote; a step that fails the
\* run leaves the collection as it is, so that what was inserted before the
\* failure is there at the exit.
C21_StoreOnlyGrows ==
    [][/\ store \sqsubseteq store'
       /\ Size(store') = Size(store) +
            (IF Len(proc'[1].batches) > Len(proc[1].batches)
             THEN proc'[1].written - proc[1].written ELSE 0)
       /\ (proc'[1].pc = "exit" /\ proc[1].pc # "exit") => store' = store]_vars

\* two batches were written and the run failed at the final count: the three
\* records are in the collection at the exit
C21_Witness ==
    /\ proc[1].pc = "exit"
    /\ proc[1].exit_code = 1
    /\ Len(proc[1].batches) = 2
    /\ proc[1].written = 3
    /\ Size(store) = 3

\* the insert loop of the run is over: its last slice ends with the records
InsertsOver(rec) ==
    IF rec.records = <<>> THEN rec.batches = <<>>
    ELSE /\ rec.batches # <<>>
         /\ rec.batches[Len(rec.batches)][2] = Len(rec.records)

\* C22: on the import path no create_index call, the one of the unique index
\* on HIP included, is issued before the last batch was given to insert_many.
C22_IndexesAfterInserts ==
    /\ proc[1].pc \in {"locate", "load", "clean", "insert"} =>
         (proc[1].idx = 0 /\ proc[1].attempted = <<>>)
    /\ (~proc[1].fast /\ proc[1].attempted # <<>>) =>
         (InsertsOver(proc[1]) /\ proc[1].pc # "insert")
    /\ (~proc[1].fast /\ proc[1].pc = "index" /\ proc[1].idx = 0) =>
         InsertsOver(proc[1])

\* the unique index was requested after two batches, the first of which
\* had raised
C22_Witness ==
    /\ proc[1].pc = "index"
    /\ ~proc[1].fast
    /\ proc[1].attempted = <<"HIP">>
    /\ Len(proc[1].batches) = 2
    /\ 1 \in proc[1].failed

\* the place of a position of the run in the order of the stages: the wait,
\* the emptiness check, locating, loading, cleaning, inserting, indexing,
\* reporting (final count and statistics), the exit
StageRank(pc) ==
    CASE pc = "idle"    -> 0
      [] pc = "wait"    -> 1
      [] pc = "connect" -> 2
      [] pc = "locate"  -> 3
      [] pc = "load"    -> 4
      [] pc = "clean"   -> 5
      [] pc = "insert"  -> 6
      [] pc = "index"   -> 7
      [] pc = "verify"  -> 8
      [] pc = "stats"   -> 8
      [] pc = "exit"    -> 9

Running == proc[1].pc \notin {"idle", "exit"}

\* C23: every run ends: a started run reaches its exit (DONE or FAILED); the
\* wait makes at most max_retries attempts; and no step of the run goes back
\* to an earlier stage, so that each stage is visited at most once, in the
\* order wait, locate, load, clean, insert, index, report.
C23_RunTerminatesInOrder ==
    /\ Running ~> (proc[1].pc = "exit" /\ proc[1].exit_code \in {0, 1})
    /\ [][/\ StageRank(proc'[1].pc) >= StageRank(proc[1].pc)
          /\ proc'[1].attempts <= proc'[1].max_retries
               \/ proc'[1].pc \notin {"wait", "connect"}]_position

\* a run that waited through failed attempts went through every stage, two
\* batches and a failed statistics call, to its exit
C23_Witness ==
    /\ proc[1].pc = "exit"
    /\ proc[1].leaked
    /\ Len(proc[1].batches) = 2
    /\ proc[1].idx = Len(indexes_to_create)
    /\ proc[1].final_count >= 0
    /\ proc[1].stats = "failed"

\* C24: wait_for_mongodb sleeps once after every failed attempt, the last
\* included: k sleeps when all of max_retries = k attempts failed, j - 1
\* sleeps when attempt j was answered; with max_retries = 0 it makes no
\* attempt and returns False.
C24_SleepAfterEveryFailure ==
    /\ proc[1].pc = "wait" =>
         (proc[1].sleeps = proc[1].attempt /\ proc[1].attempts = proc[1].attempt)
    /\ proc[1].pc = "connect" =>
         /\ proc[1].max_retries >= 1
         /\ proc[1].sleeps = proc[1].attempts - 1
    /\ proc[1].wait_ret = "False" =>
         /\ proc[1].attempts = proc[1].max_retries
         /\ proc[1].sleeps = proc[1].max_retries
         /\ proc[1].opened = proc[1].max_retries
    /\ (proc[1].max_retries = 0 /\ proc[1].pc = "wait") =>
         (~wait_loop_runs(proc[1]) /\ proc[1].attempts = 0)

\* both of two attempts failed and two sleeps were made before False
C24_Witness ==
    /\ proc[1].pc = "exit"
    /\ proc[1].wait_ret = "False"
    /\ proc[1].max_retries = 2
    /\ proc[1].attempts = 2
    /\ proc[1].sleeps = 2

\* the cleaning of the run yielded no record
CleanedEmpty ==
    /\ ~proc[1].fast
    /\ proc[1].df # NoFrame
    /\ proc[1].df.rows = <<>>

\* C25: when cleaning yields no record the run issues no insert, still goes
\* through the indexes and the reporting and exits with code 0 (unless the
\* final count raises); the collection stays empty, and a run that finds it
\* empty is on the import path again.
C25_EmptyImport ==
    /\ CleanedEmpty =>
         /\ proc[1].pc \in {"index", "verify", "stats", "exit"}
         /\ proc[1].records = <<>>
         /\ proc[1].batches = <<>>
         /\ proc[1].written = 0
         /\ store = EmptyBag
         /\ proc[1].pc \in {"verify", "stats", "exit"} =>
              proc[1].attempted = indexes_to_create
         /\ proc[1].pc = "exit" =>
              \/ proc[1].why = "verify"
              \/ /\ proc[1].exit_code = 0
                 /\ proc[1].final_count = 0
                 /\ proc[1].stats # "none"
    /\ (store = EmptyBag /\ proc[1].existing_count >= 0) =>
         (proc[1].existing_count = 0 /\ ~proc[1].fast)

\* the second run found the collection empty again, imported no record and
\* ended with code 0 after the indexes and the statistics
C25_Witness ==
    /\ CleanedEmpty
    /\ proc[1].runs = 2
    /\ proc[1].pc = "exit"
    /\ proc[1].attempted = indexes_to_create
    /\ proc[1].stats = "ok"
    /\ proc[1].exit_code = 0

\* C26: with a record in the collection the run takes the fast path and
\* never looks for the source file: no os.path.exists call, no candidate
\* listed, no file read; it exits with code 0.
C26_FastPathIgnoresSource ==
    /\ proc[1].existing_count > 0 => proc[1].fast
    /\ proc[1].fast =>
         /\ proc[1].existing_count > 0
         /\ proc[1].pc \in {"index", "exit"}
         /\ proc[1].path_checks = 0
         /\ proc[1].fs = {}
         /\ proc[1].csv_file = 0
         /\ proc[1].listed = <<>>
         /\ proc[1].read_path = 0
         /\ proc[1].raw = NoFrame
         /\ proc[1].pc = "exit" =>
              (proc[1].exit_code = 0 /\ proc[1].ret = "True")

\* a run over two records went through the indexes to exit code 0 without
\* a look at the candidate paths
C26_Witness ==
    /\ proc[1].pc = "exit"
    /\ proc[1].fast
    /\ proc[1].existing_count = 2
    /\ proc[1].path_checks = 0
    /\ proc[1].idx = Len(indexes_to_create)
    /\ proc[1].exit_code = 0

=============================================================================
